---- MODULE Spec2Model ----
(***************************************************************************)
(* A model of library_manager.py, a Streamlit page that keeps a book       *)
(* catalogue in the JSON file library.txt.  Streamlit re-executes the      *)
(* whole script on every interaction: each script run loads the file       *)
(* (line 85), executes the branch of the selected menu entry (lines        *)
(* 98-203) and ends.  A process is one such page; Spec runs one process,   *)
(* SpecRace runs two of them against the same file.                        *)
(*                                                                         *)
(* Text is modelled as a sequence of one-character strings, so that        *)
(* str.lower(), the substring test and the JSON string escapes are         *)
(* computed character by character.  The persisted document is the         *)
(* sequence of chunks json.dump writes, each chunk a sequence of           *)
(* characters; the white space of indent=4 is left out.                    *)
(***************************************************************************)
EXTENDS Integers, Sequences, FiniteSets, TLC

\* ------------------------------------------------------------ bounds

\* The longest Library the model lets Add build.
MaxBooks == 2

\* ------------------------------------------------------------ text

QUOTE == "\""
BACKSLASH == "\\"

\* str.lower() on one character (the letters the inputs use).
LowerChar(c) ==
    CASE c = "A" -> "a"
      [] c = "B" -> "b"
      [] c = "C" -> "c"
      [] OTHER -> c

\* str.lower()
Lower(s) == [i \in 1..Len(s) |-> LowerChar(s[i])]

\* Whether sub occurs in s at offset k (0-based), compared character by character.
RECURSIVE MatchAt(_, _, _, _)
MatchAt(sub, s, k, j) ==
    IF j > Len(sub) THEN TRUE
    ELSE IF s[k + j] # sub[j] THEN FALSE
    ELSE MatchAt(sub, s, k, j + 1)

\* Python's `sub in s` for str: a scan over the start offsets.
RECURSIVE ScanFrom(_, _, _)
ScanFrom(sub, s, k) ==
    IF k + Len(sub) > Len(s) THEN FALSE
    ELSE IF MatchAt(sub, s, k, 1) THEN TRUE
    ELSE ScanFrom(sub, s, k + 1)

StrContains(sub, s) == ScanFrom(sub, s, 0)

\* ------------------------------------------------------------ JSON encoding

LBRACKET == <<"[">>
RBRACKET == <<"]">>
LBRACE == <<"{">>
RBRACE == <<"}">>
COLON == <<":">>
COMMA == <<",">>

\* The keys of a book, in the insertion order of the dict literal.
Keys == <<"Title", "Author", "Year", "Genre", "Read">>

\* The characters of each key.
KeyChars(k) ==
    CASE k = "Title" -> <<"T", "i", "t", "l", "e">>
      [] k = "Author" -> <<"A", "u", "t", "h", "o", "r">>
      [] k = "Year" -> <<"Y", "e", "a", "r">>
      [] k = "Genre" -> <<"G", "e", "n", "r", "e">>
      [] k = "Read" -> <<"R", "e", "a", "d">>

DigitChars == <<"0", "1", "2", "3", "4", "5", "6", "7", "8", "9">>

\* Mutant of Escape: the body written as it is.
EscapeNone(s) == s

\* json's escaping of a str body: a quote and a backslash get a backslash.
RECURSIVE Escape(_)
Escape(s) ==
    IF s = <<>> THEN <<>>
    ELSE IF s[1] = QUOTE \/ s[1] = BACKSLASH
         THEN <<BACKSLASH, s[1]>> \o Escape(Tail(s))
         ELSE <<s[1]>> \o Escape(Tail(s))

EncodeString(s) == <<QUOTE>> \o Escape(s) \o <<QUOTE>>

\* An int in decimal (Year is never negative: number_input's min_value is 1900).
RECURSIVE EncodeInt(_)
EncodeInt(n) ==
    IF n < 10 THEN <<DigitChars[n + 1]>>
    ELSE EncodeInt(n \div 10) \o <<DigitChars[(n % 10) + 1]>>

EncodeBool(b) == IF b THEN <<"t", "r", "u", "e">> ELSE <<"f", "a", "l", "s", "e">>

\* The chunk of a book's value under key k (json encodes by the value's type).
EncodeValue(book, k) ==
    CASE k = "Year" -> EncodeInt(book.Year)
      [] k = "Read" -> EncodeBool(book.Read)
      [] k = "Title" -> EncodeString(book.Title)
      [] k = "Author" -> EncodeString(book.Author)
      [] k = "Genre" -> EncodeString(book.Genre)

RECURSIVE EncodeMembers(_, _)
EncodeMembers(book, i) ==
    IF i > Len(Keys) THEN <<>>
    ELSE (IF i > 1 THEN <<COMMA>> ELSE <<>>)
         \o <<EncodeString(KeyChars(Keys[i])), COLON, EncodeValue(book, Keys[i])>>
         \o EncodeMembers(book, i + 1)

EncodeBook(book) == <<LBRACE>> \o EncodeMembers(book, 1) \o <<RBRACE>>

RECURSIVE EncodeItems(_, _)
EncodeItems(library, i) ==
    IF i > Len(library) THEN <<>>
    ELSE (IF i > 1 THEN <<COMMA>> ELSE <<>>)
         \o EncodeBook(library[i]) \o EncodeItems(library, i + 1)

\* json.dump(library, file, indent=4): the chunks written.
json_dump(library) == <<LBRACKET>> \o EncodeItems(library, 1) \o <<RBRACKET>>

\* ------------------------------------------------------------ JSON decoding

\* The body of a str chunk with its escapes undone; ok is FALSE on a bare quote
\* or a dangling or unknown escape.
RECURSIVE Unescape(_)
Unescape(s) ==
    IF s = <<>> THEN [ok |-> TRUE, chars |-> <<>>]
    ELSE IF s[1] = QUOTE THEN [ok |-> FALSE, chars |-> <<>>]
    ELSE IF s[1] = BACKSLASH
         THEN IF Len(s) >= 2 /\ (s[2] = QUOTE \/ s[2] = BACKSLASH)
              THEN LET r == Unescape(SubSeq(s, 3, Len(s)))
                   IN [ok |-> r.ok, chars |-> <<s[2]>> \o r.chars]
              ELSE [ok |-> FALSE, chars |-> <<>>]
    ELSE LET r == Unescape(Tail(s))
         IN [ok |-> r.ok, chars |-> <<s[1]>> \o r.chars]

DecodeString(tok) ==
    IF Len(tok) >= 2 /\ tok[1] = QUOTE /\ tok[Len(tok)] = QUOTE
    THEN Unescape(SubSeq(tok, 2, Len(tok) - 1))
    ELSE [ok |-> FALSE, chars |-> <<>>]

DigitValue(c) == CHOOSE d \in 0..9 : DigitChars[d + 1] = c

IsDigit(c) == \E d \in 0..9 : DigitChars[d + 1] = c

RECURSIVE DecodeDigits(_, _)
DecodeDigits(tok, acc) ==
    IF tok = <<>> THEN acc
    ELSE DecodeDigits(Tail(tok), acc * 10 + DigitValue(tok[1]))

\* A chunk as a JSON scalar: kind is "str", "int", "bool" or "bad".
DecodeValue(tok) ==
    IF tok = EncodeBool(TRUE) THEN [kind |-> "bool", val |-> TRUE]
    ELSE IF tok = EncodeBool(FALSE) THEN [kind |-> "bool", val |-> FALSE]
    ELSE IF Len(tok) >= 1 /\ \A i \in 1..Len(tok) : IsDigit(tok[i])
         THEN [kind |-> "int", val |-> DecodeDigits(tok, 0)]
    ELSE IF DecodeString(tok).ok
         THEN [kind |-> "str", val |-> DecodeString(tok).chars]
    ELSE [kind |-> "bad", val |-> FALSE]

\* The key a str chunk names ("" when it is no key of a book).
KeyOf(tok) ==
    LET d == DecodeString(tok)
    IN IF d.ok /\ \E i \in 1..Len(Keys) : KeyChars(Keys[i]) = d.chars
       THEN Keys[CHOOSE i \in 1..Len(Keys) : KeyChars(Keys[i]) = d.chars]
       ELSE ""

\* The members of an object from chunk i on: key, colon, value, then a comma
\* and more members or the closing brace.  obj maps the keys read so far.
RECURSIVE ParseMembers(_, _, _)
ParseMembers(doc, i, obj) ==
    IF i + 3 > Len(doc) THEN [ok |-> FALSE, next |-> i, obj |-> obj]
    ELSE LET k == KeyOf(doc[i])
             v == DecodeValue(doc[i + 2])
             o == [x \in (DOMAIN obj) \cup {k} |-> IF x = k THEN v.val ELSE obj[x]]
         IN IF k = "" \/ doc[i + 1] # COLON \/ v.kind = "bad"
            THEN [ok |-> FALSE, next |-> i, obj |-> obj]
            ELSE IF doc[i + 3] = RBRACE THEN [ok |-> TRUE, next |-> i + 4, obj |-> o]
            ELSE IF doc[i + 3] = COMMA THEN ParseMembers(doc, i + 4, o)
            ELSE [ok |-> FALSE, next |-> i, obj |-> obj]

\* The items of the array from chunk i on: an object, then a comma and more
\* items or the closing bracket, which must be the last chunk.
RECURSIVE ParseItems(_, _, _)
ParseItems(doc, i, acc) ==
    IF i > Len(doc) \/ doc[i] # LBRACE THEN [ok |-> FALSE, value |-> <<>>]
    ELSE LET m == ParseMembers(doc, i + 1, <<>>)
         IN IF ~m.ok \/ m.next > Len(doc) \/ DOMAIN m.obj # {Keys[j] : j \in 1..Len(Keys)}
            THEN [ok |-> FALSE, value |-> <<>>]
            ELSE LET book == [Title |-> m.obj["Title"], Author |-> m.obj["Author"],
                              Year |-> m.obj["Year"], Genre |-> m.obj["Genre"],
                              Read |-> m.obj["Read"]]
                 IN IF doc[m.next] = RBRACKET
                    THEN [ok |-> m.next = Len(doc), value |-> Append(acc, book)]
                    ELSE IF doc[m.next] = COMMA
                    THEN ParseItems(doc, m.next + 1, Append(acc, book))
                    ELSE [ok |-> FALSE, value |-> <<>>]

\* json.load(file): ok is FALSE where json raises JSONDecodeError.  The documents
\* of the model are the ones json_dump writes and their truncations.
json_load(doc) ==
    IF Len(doc) < 2 \/ doc[1] # LBRACKET THEN [ok |-> FALSE, value |-> <<>>]
    ELSE IF doc[2] = RBRACKET THEN [ok |-> Len(doc) = 2, value |-> <<>>]
    ELSE ParseItems(doc, 2, <<>>)

\* ------------------------------------------------------------ the file

\* DATA_FILE: whether library.txt exists, and its chunks.
NoFile == [exists |-> FALSE, doc |-> <<>>]

\* Mutant of load_library: the file opened without os.path.exists.
load_library_unguarded(f) ==
    LET r == json_load(f.doc)
    IN [raised |-> ~f.exists \/ ~r.ok, value |-> r.value]

\* Mutant of load_library: a JSONDecodeError caught, the empty list returned.
load_library_lenient(f) ==
    IF f.exists /\ json_load(f.doc).ok THEN [raised |-> FALSE, value |-> json_load(f.doc).value]
    ELSE [raised |-> FALSE, value |-> <<>>]

\* load_library(): raised is TRUE where json.load raises; a missing file reads
\* as the empty list.
load_library(f) ==
    IF f.exists
    THEN LET r == json_load(f.doc)
         IN [raised |-> ~r.ok, value |-> r.value]
    ELSE [raised |-> FALSE, value |-> <<>>]

\* save_library(library) running to completion: the file is opened with "w"
\* and holds the whole dump.
save_library(f, library) == [exists |-> TRUE, doc |-> json_dump(library)]

\* save_library(library) raising OSError: open() raised and the file is as it
\* was, or a write raised after open() truncated the file and part of the dump
\* is in it.
FailedSaves(f, library) ==
    {f} \cup {[exists |-> TRUE, doc |-> SubSeq(json_dump(library), 1, n)] :
                 n \in 0..(Len(json_dump(library)) - 1)}

\* ------------------------------------------------------------ the branches

\* number_input's min_value, and the value "no year filter" of the search form.
YEAR_MIN == 1900

\* Mutant of FieldsPresent: `if title and author`.
FieldsPresentNoGenre(title, author, genre) == title # <<>> /\ author # <<>>

\* `if title and author and genre`
FieldsPresent(title, author, genre) == title # <<>> /\ author # <<>> /\ genre # <<>>

\* Mutant of remove_filter: the titles compared without .lower().
RECURSIVE remove_filter_exact(_, _)
remove_filter_exact(library, remove_title) ==
    IF library = <<>> THEN <<>>
    ELSE (IF library[1].Title # remove_title THEN <<library[1]>> ELSE <<>>)
         \o remove_filter_exact(Tail(library), remove_title)

\* The list comprehension of the Remove branch.
RECURSIVE remove_filter(_, _)
remove_filter(library, remove_title) ==
    IF library = <<>> THEN <<>>
    ELSE (IF Lower(library[1].Title) # Lower(remove_title) THEN <<library[1]>> ELSE <<>>)
         \o remove_filter(Tail(library), remove_title)

\* Mutant of search_match: `and` between the Title and the Author tests.
search_match_and(book, search_query, year_filter) ==
    /\ StrContains(Lower(search_query), Lower(book.Title))
    /\ StrContains(Lower(search_query), Lower(book.Author))
    /\ IF year_filter > YEAR_MIN THEN book.Year = year_filter ELSE TRUE

\* The condition of the Search branch's list comprehension.
search_match(book, search_query, year_filter) ==
    /\ \/ StrContains(Lower(search_query), Lower(book.Title))
       \/ StrContains(Lower(search_query), Lower(book.Author))
    /\ IF year_filter > YEAR_MIN THEN book.Year = year_filter ELSE TRUE

RECURSIVE search_filter(_, _, _)
search_filter(library, search_query, year_filter) ==
    IF library = <<>> THEN <<>>
    ELSE (IF search_match(library[1], search_query, year_filter)
          THEN <<library[1]>> ELSE <<>>)
         \o search_filter(Tail(library), search_query, year_filter)

\* `if search_query or year_filter > 1900`
search_runs(search_query, year_filter) == search_query # <<>> \/ year_filter > YEAR_MIN

\* Mutant of read_sum: df["Read"].count().
read_sum_all(library) == Len(library)

\* df["Read"].sum()
RECURSIVE read_sum(_)
read_sum(library) ==
    IF library = <<>> THEN 0
    ELSE (IF library[1].Read THEN 1 ELSE 0) + read_sum(Tail(library))

\* (read_books / total_books) * 100 as f"{read_percentage:.2f}" shows it: in
\* hundredths of a percent, rounded to the nearest.
read_percentage(read_books, total_books) ==
    (2 * read_books * 10000 + total_books) \div (2 * total_books)

\* ------------------------------------------------------------ inputs

TitleInputs == {<<>>, <<"A", "b">>, <<"b">>}
AuthorInputs == {<<>>, <<"C">>}
YearInputs == {1965, 1970}
GenreInputs == {<<>>, <<"g", QUOTE>>}

\* What the Add form can hold when its button is pressed.
AddInputs ==
    [Title : TitleInputs, Author : AuthorInputs, Year : YearInputs,
     Genre : GenreInputs, Read : BOOLEAN]

RemoveInputs == {<<>>, <<"A", "B">>, <<"b">>}
SearchInputs == {<<>>, <<"a">>, <<"B">>, <<"c">>, <<"b", "a">>}
YearFilterInputs == {YEAR_MIN, 1965, 1970}

\* The forms of the two pages of SpecRace.
RaceAddInputs ==
    {[Title |-> <<"A", "b">>, Author |-> <<"C">>, Year |-> 1965,
      Genre |-> <<"g", QUOTE>>, Read |-> TRUE],
     [Title |-> <<"b">>, Author |-> <<"C">>, Year |-> 1970,
      Genre |-> <<"g", QUOTE>>, Read |-> FALSE]}
RaceRemoveInputs == {<<"a", "b">>}

Procs == {1, 2}

\* ------------------------------------------------------------ state

VARIABLES
    file,      \* library.txt
    written,   \* ghost: whether the file holds a complete dump, of which list, by whom
    pc,        \* per process: where its script run is
    library,   \* per process: the global `library` of its run
    loaded,    \* ghost, per process: `library` as line 85 bound it
    last       \* per process: the branch its run took, its inputs and what it showed

vars == <<file, written, pc, library, loaded, last>>

EmptyBook == [Title |-> <<>>, Author |-> <<>>, Year |-> YEAR_MIN, Genre |-> <<>>, Read |-> FALSE]

\* A run that has not reached its branch.
NoAction ==
    [op |-> "none", book |-> EmptyBook, text |-> <<>>, year_filter |-> YEAR_MIN,
     message |-> "none", results |-> <<>>, metrics |-> FALSE,
     total_books |-> 0, read_books |-> 0, unread_books |-> 0, read_percentage |-> 0]

Init ==
    /\ file = NoFile
    /\ written = [complete |-> FALSE, library |-> <<>>, by |-> 0]
    /\ pc = [p \in Procs |-> "start"]
    /\ library = [p \in Procs |-> <<>>]
    /\ loaded = [p \in Procs |-> <<>>]
    /\ last = [p \in Procs |-> NoAction]

\* Line 85: library = load_library().  An exception ends the run.
LoadLibrary(p) ==
    /\ pc[p] = "start"
    /\ LET r == load_library(file)
       IN IF r.raised
          THEN /\ pc' = [pc EXCEPT ![p] = "load_error"]
               /\ UNCHANGED <<library, loaded>>
          ELSE /\ pc' = [pc EXCEPT ![p] = "loaded"]
               /\ library' = [library EXCEPT ![p] = r.value]
               /\ loaded' = [loaded EXCEPT ![p] = r.value]
    /\ UNCHANGED <<file, written, last>>

\* Mutant of AddBook: the file read again before the append.
AddBookReloading(p, inputs) ==
    /\ pc[p] = "loaded"
    /\ ~load_library(file).raised
    /\ \E new_book \in inputs :
          /\ FieldsPresent(new_book.Title, new_book.Author, new_book.Genre)
          /\ Len(load_library(file).value) < MaxBooks
          /\ library' = [library EXCEPT ![p] = Append(load_library(file).value, new_book)]
          /\ file' = save_library(file, library'[p])
          /\ written' = [complete |-> TRUE, library |-> library'[p], by |-> p]
          /\ last' = [last EXCEPT ![p] =
                         [NoAction EXCEPT !.op = "add", !.book = new_book,
                                          !.message = "success"]]
    /\ pc' = [pc EXCEPT ![p] = "done"]
    /\ UNCHANGED loaded

\* Lines 106-119: the Add button, with save_library running to completion.
AddBook(p, inputs) ==
    /\ pc[p] = "loaded"
    /\ \E new_book \in inputs :
          IF FieldsPresent(new_book.Title, new_book.Author, new_book.Genre)
          THEN /\ Len(library[p]) < MaxBooks
               /\ library' = [library EXCEPT ![p] = Append(library[p], new_book)]
               /\ file' = save_library(file, library'[p])
               /\ written' = [complete |-> TRUE, library |-> library'[p], by |-> p]
               /\ last' = [last EXCEPT ![p] =
                              [NoAction EXCEPT !.op = "add", !.book = new_book,
                                               !.message = "success"]]
          ELSE /\ last' = [last EXCEPT ![p] =
                              [NoAction EXCEPT !.op = "add", !.book = new_book,
                                               !.message = "warning"]]
               /\ UNCHANGED <<file, written, library>>
    /\ pc' = [pc EXCEPT ![p] = "done"]
    /\ UNCHANGED loaded

\* Lines 106-116 with save_library raising: the exception ends the run after
\* line 115 appended.
AddBookSaveFails(p, inputs) ==
    /\ pc[p] = "loaded"
    /\ \E new_book \in inputs :
          /\ FieldsPresent(new_book.Title, new_book.Author, new_book.Genre)
          /\ Len(library[p]) < MaxBooks
          /\ library' = [library EXCEPT ![p] = Append(library[p], new_book)]
          /\ \E f \in FailedSaves(file, library'[p]) :
                /\ file' = f
                /\ written' = IF f = file THEN written
                              ELSE [complete |-> FALSE, library |-> <<>>, by |-> p]
          /\ last' = [last EXCEPT ![p] =
                         [NoAction EXCEPT !.op = "add", !.book = new_book,
                                          !.message = "exception"]]
    /\ pc' = [pc EXCEPT ![p] = "save_error"]
    /\ UNCHANGED loaded

\* Mutant of RemoveBook: the list filtered and not saved.
RemoveBookNoSave(p, inputs) ==
    /\ pc[p] = "loaded"
    /\ \E remove_title \in inputs :
          /\ library' = [library EXCEPT ![p] = remove_filter(library[p], remove_title)]
          /\ last' = [last EXCEPT ![p] =
                         [NoAction EXCEPT
                             !.op = "remove", !.text = remove_title,
                             !.message = IF Len(library'[p]) < Len(library[p])
                                         THEN "success" ELSE "warning"]]
    /\ pc' = [pc EXCEPT ![p] = "done"]
    /\ UNCHANGED <<file, written, loaded>>

\* Lines 126-133: the Remove button, with save_library running to completion.
RemoveBook(p, inputs) ==
    /\ pc[p] = "loaded"
    /\ \E remove_title \in inputs :
          LET initial_count == Len(library[p])
          IN /\ library' = [library EXCEPT ![p] = remove_filter(library[p], remove_title)]
             /\ file' = save_library(file, library'[p])
             /\ written' = [complete |-> TRUE, library |-> library'[p], by |-> p]
             /\ last' = [last EXCEPT ![p] =
                            [NoAction EXCEPT
                                !.op = "remove", !.text = remove_title,
                                !.message = IF Len(library'[p]) < initial_count
                                            THEN "success" ELSE "warning"]]
    /\ pc' = [pc EXCEPT ![p] = "done"]
    /\ UNCHANGED loaded

\* Lines 126-129 with save_library raising, after line 128 rebound `library`.
RemoveBookSaveFails(p, inputs) ==
    /\ pc[p] = "loaded"
    /\ \E remove_title \in inputs :
          /\ library' = [library EXCEPT ![p] = remove_filter(library[p], remove_title)]
          /\ \E f \in FailedSaves(file, library'[p]) :
                /\ file' = f
                /\ written' = IF f = file THEN written
                              ELSE [complete |-> FALSE, library |-> <<>>, by |-> p]
          /\ last' = [last EXCEPT ![p] =
                         [NoAction EXCEPT !.op = "remove", !.text = remove_title,
                                          !.message = "exception"]]
    /\ pc' = [pc EXCEPT ![p] = "save_error"]
    /\ UNCHANGED loaded

\* Lines 136-152: the Search page.
SearchBook(p) ==
    /\ pc[p] = "loaded"
    /\ \E search_query \in SearchInputs, year_filter \in YearFilterInputs :
          IF search_runs(search_query, year_filter)
          THEN LET results == search_filter(library[p], search_query, year_filter)
               IN last' = [last EXCEPT ![p] =
                              [NoAction EXCEPT
                                  !.op = "search", !.text = search_query,
                                  !.year_filter = year_filter, !.results = results,
                                  !.message = IF results # <<>> THEN "success"
                                              ELSE "warning"]]
          ELSE last' = [last EXCEPT ![p] =
                           [NoAction EXCEPT !.op = "search", !.text = search_query,
                                            !.year_filter = year_filter]]
    /\ pc' = [pc EXCEPT ![p] = "done"]
    /\ UNCHANGED <<file, written, library, loaded>>

\* Lines 155-162: the Display All Books page.
DisplayAllBooks(p) ==
    /\ pc[p] = "loaded"
    /\ last' = [last EXCEPT ![p] =
                   [NoAction EXCEPT !.op = "list", !.results = library[p],
                                    !.message = IF library[p] # <<>> THEN "none"
                                                ELSE "info"]]
    /\ pc' = [pc EXCEPT ![p] = "done"]
    /\ UNCHANGED <<file, written, library, loaded>>

\* Lines 165-179: the Display Statistics page, up to its three metrics.
DisplayStatistics(p) ==
    /\ pc[p] = "loaded"
    /\ IF library[p] = <<>>
       THEN last' = [last EXCEPT ![p] =
                        [NoAction EXCEPT !.op = "stats", !.message = "warning"]]
       ELSE LET total_books == Len(library[p])
                read_books == read_sum(library[p])
                unread_books == total_books - read_books
            IN last' = [last EXCEPT ![p] =
                           [NoAction EXCEPT
                               !.op = "stats", !.metrics = TRUE,
                               !.total_books = total_books,
                               !.read_books = read_books,
                               !.unread_books = unread_books,
                               !.read_percentage =
                                   read_percentage(read_books, total_books)]]
    /\ pc' = [pc EXCEPT ![p] = "done"]
    /\ UNCHANGED <<file, written, library, loaded>>

\* Lines 199-203: the Exit page.
ExitApp(p) ==
    /\ pc[p] = "loaded"
    /\ last' = [last EXCEPT ![p] = [NoAction EXCEPT !.op = "exit", !.message = "info"]]
    /\ pc' = [pc EXCEPT ![p] = "done"]
    /\ UNCHANGED <<file, written, library, loaded>>

\* The next interaction: Streamlit executes the script again, from its top.
Rerun(p) ==
    /\ pc[p] \in {"done", "load_error", "save_error"}
    /\ pc' = [pc EXCEPT ![p] = "start"]
    /\ library' = [library EXCEPT ![p] = <<>>]
    /\ loaded' = [loaded EXCEPT ![p] = <<>>]
    /\ last' = [last EXCEPT ![p] = NoAction]
    /\ UNCHANGED <<file, written>>

\* One page, storage failures included.
Next ==
    \/ LoadLibrary(1)
    \/ AddBook(1, AddInputs)
    \/ AddBookSaveFails(1, AddInputs)
    \/ RemoveBook(1, RemoveInputs)
    \/ RemoveBookSaveFails(1, RemoveInputs)
    \/ SearchBook(1)
    \/ DisplayAllBooks(1)
    \/ DisplayStatistics(1)
    \/ ExitApp(1)
    \/ Rerun(1)

Spec == Init /\ [][Next]_vars

\* Two pages on the same library.txt, every save running to completion.
NextRace ==
    \E p \in Procs :
        \/ LoadLibrary(p)
        \/ AddBook(p, RaceAddInputs)
        \/ RemoveBook(p, RaceRemoveInputs)
        \/ Rerun(p)

SpecRace == Init /\ [][NextRace]_vars

\* ------------------------------------------------------------ properties

\* Equality of two texts ignoring case.
SameIgnoringCase(a, b) ==
    Len(a) = Len(b) /\ \A i \in 1..Len(a) : LowerChar(a[i]) = LowerChar(b[i])

\* q is a substring of s ignoring case.
SubstringIgnoringCase(q, s) ==
    \E k \in 0..(Len(s) - Len(q)) :
        \A j \in 1..Len(q) : LowerChar(s[k + j]) = LowerChar(q[j])

\* The books of a list.
Books(l) == {l[i] : i \in 1..Len(l)}

\* C1: a list that save_library wrote in full is what the next load_library
\* returns: no exception, the same books in the same order, field by field.
C1_SaveLoadRoundTrip ==
    \A p \in Procs :
        (written.complete /\ pc[p] \in {"loaded", "load_error"})
            => (pc[p] = "loaded" /\ loaded[p] = written.library)

\* A list of two equal books, with a quote in a field, was saved and loaded back.
C1_Witness ==
    /\ written.complete
    /\ pc[1] = "loaded"
    /\ Len(loaded[1]) >= 2
    /\ loaded[1][1] = loaded[1][2]
    /\ \E i \in 1..Len(loaded[1][1].Genre) : loaded[1][1].Genre[i] = QUOTE

\* C2: Remove leaves exactly the books whose Title differs from the query
\* ignoring case, in their order; the number removed is the number of books
\* whose Title equals it ignoring case, and "not found" is shown exactly when
\* that number is 0, the list then being as it was.
C2_RemoveFilters ==
    \A p \in Procs :
        (pc[p] = "done" /\ last[p].op = "remove") =>
            LET matches == {i \in 1..Len(loaded[p]) :
                               SameIgnoringCase(loaded[p][i].Title, last[p].text)}
            IN /\ library[p] =
                     SelectSeq(loaded[p],
                               LAMBDA b : ~SameIgnoringCase(b.Title, last[p].text))
               /\ Len(loaded[p]) - Len(library[p]) = Cardinality(matches)
               /\ (last[p].message = "warning") = (matches = {})
               /\ matches = {} => library[p] = loaded[p]

\* One Remove took out two books, its query differing from their Title in case.
C2_Witness ==
    /\ pc[1] = "done"
    /\ last[1].op = "remove"
    /\ Len(loaded[1]) = 2
    /\ library[1] = <<>>
    /\ last[1].text # loaded[1][1].Title

\* C3: Search shows, in the list's order, exactly the books where the query is
\* a substring of Title or of Author ignoring case and, when the year filter
\* is above 1900, Year equals it; with an empty query and the filter at 1900
\* it shows no book.
C3_SearchResults ==
    \A p \in Procs :
        (pc[p] = "done" /\ last[p].op = "search") =>
            last[p].results =
                IF last[p].text = <<>> /\ ~(last[p].year_filter > YEAR_MIN)
                THEN <<>>
                ELSE SelectSeq(library[p],
                        LAMBDA b :
                            /\ \/ SubstringIgnoringCase(last[p].text, b.Title)
                               \/ SubstringIgnoringCase(last[p].text, b.Author)
                            /\ last[p].year_filter > YEAR_MIN
                                  => b.Year = last[p].year_filter)

\* A Search with a query and a year filter showed some of the books, not all.
C3_Witness ==
    /\ pc[1] = "done"
    /\ last[1].op = "search"
    /\ last[1].text # <<>>
    /\ last[1].year_filter > YEAR_MIN
    /\ last[1].results # <<>>
    /\ Len(last[1].results) < Len(library[1])

\* C4 as claimed: Statistics yields total, read, unread and the read percentage
\* for every list, the empty one included, where all four are 0.
C4_StatsAsClaimed ==
    \A p \in Procs :
        (pc[p] = "done" /\ last[p].op = "stats") =>
            /\ last[p].metrics
            /\ last[p].total_books = Len(library[p])
            /\ last[p].read_books = Cardinality({i \in 1..Len(library[p]) : library[p][i].Read})
            /\ last[p].unread_books = last[p].total_books - last[p].read_books
            /\ LET d == last[p].read_percentage * last[p].total_books
                        - last[p].read_books * 10000
               IN IF library[p] = <<>> THEN last[p].read_percentage = 0
                  ELSE 2 * d <= last[p].total_books /\ -2 * d <= last[p].total_books

\* C4 amended: on a list that is not empty Statistics yields total = the number
\* of books, read = the number with Read true, unread = total - read and the
\* percentage read/total*100 (to the nearest hundredth); on the empty list it
\* computes no statistics and shows a warning, without dividing.
C4_Stats ==
    \A p \in Procs :
        (pc[p] = "done" /\ last[p].op = "stats") =>
            IF library[p] = <<>>
            THEN ~last[p].metrics /\ last[p].message = "warning"
            ELSE /\ last[p].metrics
                 /\ last[p].total_books = Len(library[p])
                 /\ last[p].read_books =
                       Cardinality({i \in 1..Len(library[p]) : library[p][i].Read})
                 /\ last[p].unread_books = last[p].total_books - last[p].read_books
                 /\ LET d == last[p].read_percentage * last[p].total_books
                             - last[p].read_books * 10000
                    IN 2 * d <= last[p].total_books /\ -2 * d <= last[p].total_books

\* Statistics of a list with a read and an unread book: 50.00 %.
C4_Witness ==
    /\ pc[1] = "done"
    /\ last[1].op = "stats"
    /\ last[1].metrics
    /\ last[1].read_books = 1
    /\ last[1].unread_books = 1
    /\ last[1].read_percentage = 5000

\* C5: an Add with Title, Author and Genre all non-empty appends the one book
\* of the form at the end of the list and leaves the books before it as they
\* were, whether or not its Title is already there; an Add with one of them
\* empty changes neither the list nor the file.
C5_Add ==
    [][\A p \in Procs :
          (pc[p] = "loaded" /\ pc'[p] = "done" /\ last'[p].op = "add") =>
              LET b == last'[p].book
              IN IF Len(b.Title) > 0 /\ Len(b.Author) > 0 /\ Len(b.Genre) > 0
                 THEN /\ library'[p] = library[p] \o <<b>>
                      /\ last'[p].message = "success"
                 ELSE /\ library'[p] = library[p]
                      /\ file' = file
                      /\ last'[p].message = "warning"]_vars

\* An Add put a second book with the Title of the first at the end.
C5_Witness ==
    /\ pc[1] = "done"
    /\ last[1].op = "add"
    /\ last[1].message = "success"
    /\ Len(library[1]) = 2
    /\ library[1][2] = last[1].book
    /\ library[1][1].Title = library[1][2].Title

\* C6: at the end of every action of a run in which no save failed, loading
\* the file gives the list in memory.
C6_FileEqualsMemory ==
    \A p \in Procs :
        pc[p] = "done" => load_library(file) = [raised |-> FALSE, value |-> library[p]]

\* A Remove that took a book out of two has ended.
C6_Witness ==
    /\ pc[1] = "done"
    /\ last[1].op = "remove"
    /\ last[1].message = "success"
    /\ Len(library[1]) = 1
    /\ file.exists

\* C7: when two pages loaded the same list, both changed it and reported
\* success, the file holds what the page that saved last made of that list
\* alone: the other page's change is not in it, and neither page saw an error.
C7_LostUpdate ==
    \A p, q \in Procs :
        (/\ p # q
         /\ pc[p] = "done" /\ pc[q] = "done"
         /\ last[p].op \in {"add", "remove"} /\ last[p].message = "success"
         /\ last[q].op \in {"add", "remove"} /\ last[q].message = "success"
         /\ loaded[p] = loaded[q]
         /\ written.by = p)
        => /\ load_library(file) =
                 [raised |-> FALSE,
                  value |-> IF last[p].op = "add"
                            THEN loaded[q] \o <<last[p].book>>
                            ELSE SelectSeq(loaded[q],
                                    LAMBDA b : ~SameIgnoringCase(b.Title, last[p].text))]
           /\ (last[p].op = "add" /\ last[q].op = "add")
                 => Len(load_library(file).value) = Len(loaded[q]) + 1

\* Both pages loaded the same list and added different books with success;
\* page 1 saved last and the book of page 2 is not in the file.
C7_Witness ==
    /\ pc[1] = "done" /\ pc[2] = "done"
    /\ last[1].op = "add" /\ last[1].message = "success"
    /\ last[2].op = "add" /\ last[2].message = "success"
    /\ last[1].book # last[2].book
    /\ loaded[1] = loaded[2]
    /\ written.by = 1
    /\ last[2].book \notin Books(load_library(file).value)
    /\ last[2].book \in Books(library[2])

\* C8: with no file, load_library returns the empty list and raises nothing.
C8_MissingFileLoadsEmpty ==
    \A p \in Procs :
        (~file.exists /\ pc[p] \in {"loaded", "load_error"})
            => (pc[p] = "loaded" /\ library[p] = <<>> /\ loaded[p] = <<>>)

\* A run loaded with no file there.
C8_Witness == ~file.exists /\ pc[1] = "loaded" /\ library[1] = <<>>

\* C9: a run that starts on a file holding part of a dump ends at the load
\* with an exception, binding no list, and a run that ended so does not write
\* the file.
C9_MalformedFailsLoad ==
    [][\A p \in Procs :
          /\ (pc[p] = "start" /\ pc'[p] # "start" /\ file.exists /\ ~written.complete)
                => (pc'[p] = "load_error" /\ library'[p] = library[p] /\ file' = file)
          /\ pc[p] = "load_error" => file' = file]_vars

\* A run ended at the load on a file cut inside its second book.
C9_Witness ==
    /\ pc[1] = "load_error"
    /\ file.exists
    /\ ~written.complete
    /\ Len(file.doc) > Len(json_dump(<<EmptyBook>>))

\* C10 as claimed: after an Add or Remove whose save raised, the list in
\* memory is the list as loaded.
C10_FailedSaveKeepsLoaded ==
    \A p \in Procs : pc[p] = "save_error" => library[p] = loaded[p]

====
